---------------------------- MODULE Spec2Model ----------------------------
(***************************************************************************)
(* Auth-Starter: the sign-up and forgot-password route handlers, the       *)
(* two-factor helpers and the device-confidence score of src/utils/auth.ts *)
(* as state machines.  The identity provider (supabase.auth) and the rate  *)
(* limiter are the environment: every answer they can give is a            *)
(* nondeterministic choice made when the handler awaits the call.          *)
(***************************************************************************)
EXTENDS Integers, Sequences, FiniteSets, TLC

VARIABLES
    op,          \* which exported function / handler this run executes
    pc,          \* the handler's position (the await it stands before)
    AUTH_CONFIG, \* @/config/auth as imported by the handlers
    authRateLimit, \* @/utils/rate-limit: TRUE when a limiter is configured, FALSE when it is null
    apiRateLimit,  \* @/utils/rate-limit: the limiter of the authenticated routes, likewise
    store,       \* useUserStore(): the client's user store
    router,      \* useRouter(): the path the client is on
    theme,       \* useTheme(): "light" or "dark"
    toast,       \* sonner: the toasts shown so far, in order
    request,     \* the arguments / HTTP request of the run
    supabase,    \* what the provider holds (accounts, enrolled factors)
    locals,      \* the handler's local bindings that live across an await
    calls,       \* the provider and limiter calls made so far, in order, with their answers
    response,    \* what the handler returned (or threw)
    console      \* console.error lines written

vars == <<op, pc, AUTH_CONFIG, authRateLimit, apiRateLimit, store, router, theme, toast,
          request, supabase, locals, calls, response, console>>

(***************************************************************************)
(* null / undefined: None is the absent value, Some(x) a present one.      *)
(***************************************************************************)
None == <<>>
Some(x) == <<x>>
IsSome(o) == Len(o) = 1
Get(o) == o[1]
Range(s) == {s[i] : i \in DOMAIN s}

NoResponse == [kind |-> "pending"]
NoLocals == <<>>

(***************************************************************************)
(* zod schemas of src/utils/validation/auth-validation.ts.  A string is    *)
(* seen by the schema through its length and, for an email, whether it has *)
(* the shape z.string().email() accepts.  safeParse collects the issues in *)
(* the order of the checks; the handlers report issues[0].                 *)
(***************************************************************************)
EmailMaxLen == 255
PasswordMinLen == 8
PasswordMaxLen == 72

\* authSchema.shape.email: the issues, in order
EmailIssues(email) ==
    IF ~IsSome(email) THEN <<"Required">>
    ELSE (IF Get(email).len < 1 THEN <<"Email is required">> ELSE <<>>)
         \o (IF Get(email).len > EmailMaxLen THEN <<"Email is too long">> ELSE <<>>)
         \o (IF ~Get(email).shaped THEN <<"Invalid email format">> ELSE <<>>)

\* authSchema.shape.password: the issues, in order
PasswordIssues(password) ==
    IF ~IsSome(password) THEN <<"Required">>
    ELSE (IF Get(password).len < PasswordMinLen
             THEN <<"Password must be at least 8 characters">> ELSE <<>>)
         \o (IF Get(password).len > PasswordMaxLen
             THEN <<"Password cannot exceed 72 characters">> ELSE <<>>)

\* validateEmail(email): {isValid, error}
validateEmail(email) ==
    LET issues == EmailIssues(email)
    IN  [isValid |-> issues = <<>>,
         error   |-> IF issues = <<>> THEN None ELSE Some(issues[1])]

\* validateFormData(body): {error, data}
validateFormData(body) ==
    LET issues == EmailIssues(body.email) \o PasswordIssues(body.password)
    IN  IF issues # <<>>
        THEN [error |-> Some(issues[1]), data |-> None]
        ELSE [error |-> None, data |-> Some(body)]

(***************************************************************************)
(* NextResponse.json(body, {status}): the body is the set of its           *)
(* <<key, value>> pairs, so {} is the empty body.                          *)
(***************************************************************************)
Json(body, status) == [kind |-> "http", status |-> status, body |-> body]
ErrorBody(msg) == {<<"error", msg>>}
EmptyBody == {}

TooManyRequests == Json(ErrorBody("Too many requests. Please try again later."), 429)

(***************************************************************************)
(* The inputs of the route handlers.                                       *)
(***************************************************************************)
\* lengths on both sides of every limit of authSchema
EmailLens == {0, 6, EmailMaxLen, EmailMaxLen + 1}
PasswordLens == {PasswordMinLen - 1, PasswordMinLen, PasswordMaxLen, PasswordMaxLen + 1}
Emails == {None} \cup {Some([len |-> n, shaped |-> b]) : n \in EmailLens, b \in BOOLEAN}
Passwords == {None} \cup {Some([len |-> n]) : n \in PasswordLens}
\* request.json(): None is a body that is not JSON (json() rejects)
Bodies == {None} \cup {Some([email |-> e, password |-> p]) : e \in Emails, p \in Passwords}

ApiRateLimitConfigs == [enabled : BOOLEAN]
NoTwoFactorConfig == [enabled |-> FALSE, methods |-> <<>>]

\* messages the provider reports in {error: {message}}
ProviderMessages == {"User already registered", "Email rate limit exceeded"}

Call(fn, args, answer) == [fn |-> fn, args |-> args, answer |-> answer]
Finish(resp) == pc' = "done" /\ response' = resp

(***************************************************************************)
(* authRateLimit.limit(ip): {success}, or a rejected promise.              *)
(***************************************************************************)
LimitAnswers == {[success |-> TRUE], [success |-> FALSE], [threw |-> TRUE]}

(***************************************************************************)
(* POST /api/auth/email/signup                                             *)
(***************************************************************************)
\* supabase.auth.signUp(credentials): what the provider can answer.  For an
\* email that already has an account it answers either an obfuscated user
\* with no identities or an error; "threw" is a rejected promise.
SignUpAnswers(registered) ==
    (IF registered
        THEN {[user |-> Some([identities |-> 0]), error |-> None]}
        ELSE {[user |-> Some([identities |-> 1]), error |-> None]})
    \cup {[user |-> None, error |-> Some(m)] : m \in ProviderMessages}
    \cup {[threw |-> TRUE]}

SignUpInternalError == Json(ErrorBody("Internal server error"), 500)
SignUpAlreadyRegistered ==
    Json(ErrorBody("This email is already registered. Please try logging in instead."), 400)

\* SignUpResult with the authError branch (lines 47-49) left out
SignUpResult_NoErrorBranch(answer) ==
    IF IsSome(answer.user) /\ Get(answer.user).identities = 0
    THEN SignUpAlreadyRegistered
    ELSE Json(EmptyBody, 200)

\* lines 36-51: the response computed from signUp's {data, error}
SignUpResult(answer) ==
    IF IsSome(answer.user) /\ Get(answer.user).identities = 0
    THEN SignUpAlreadyRegistered
    ELSE IF IsSome(answer.error)
         THEN Json(ErrorBody(Get(answer.error)), 400)
         ELSE Json(EmptyBody, 200)

\* lines 9-19: the rate-limit block
SignUpRateLimit ==
    /\ op = "signup" /\ pc = "start"
    /\ IF authRateLimit /\ AUTH_CONFIG.api_rate_limit.enabled
       THEN \E a \in LimitAnswers :
              /\ calls' = Append(calls, Call("limit", request.ip, a))
              /\ IF "threw" \in DOMAIN a THEN Finish(SignUpInternalError)
                 ELSE IF ~a.success THEN Finish(TooManyRequests)
                 ELSE pc' = "body" /\ UNCHANGED response
       ELSE pc' = "body" /\ UNCHANGED <<calls, response>>
    /\ UNCHANGED <<op, AUTH_CONFIG, authRateLimit, apiRateLimit, store, router, theme, toast, locals, request, supabase, console>>

\* lines 21-29: request.json() and validateFormData
SignUpValidate ==
    /\ op = "signup" /\ pc = "body"
    /\ IF ~IsSome(request.body) THEN Finish(SignUpInternalError)
       ELSE LET validation == validateFormData(Get(request.body))
            IN  IF IsSome(validation.error) \/ ~IsSome(validation.data)
                THEN Finish(Json(ErrorBody(IF IsSome(validation.error)
                                           THEN Get(validation.error)
                                           ELSE "Invalid input"), 400))
                ELSE pc' = "signUp" /\ UNCHANGED response
    /\ UNCHANGED <<op, AUTH_CONFIG, authRateLimit, apiRateLimit, store, router, theme, toast, locals, request, supabase, calls, console>>

\* lines 31-57: supabase.auth.signUp and the response
SignUpCall ==
    /\ op = "signup" /\ pc = "signUp"
    /\ \E a \in SignUpAnswers(supabase.registered) :
         /\ calls' = Append(calls, Call("signUp", Get(request.body), a))
         /\ IF "threw" \in DOMAIN a
            THEN Finish(SignUpInternalError) /\ UNCHANGED supabase
            ELSE /\ Finish(SignUpResult(a))
                 /\ supabase' = [supabase EXCEPT !.registered =
                                   @ \/ (IsSome(a.user) /\ ~IsSome(a.error))]
    /\ UNCHANGED <<op, AUTH_CONFIG, authRateLimit, apiRateLimit, store, router, theme, toast, locals, request, console>>

(***************************************************************************)
(* POST /api/auth/forgot-password                                          *)
(***************************************************************************)
\* supabase.auth.resetPasswordForEmail(email, {redirectTo}): {error}
ResetAnswers ==
    {[error |-> None]} \cup {[error |-> Some(m)] : m \in ProviderMessages}
    \cup {[threw |-> TRUE]}

ForgotUnexpected == Json(ErrorBody("An unexpected error occurred"), 500)

\* ForgotResult returning the provider's error to the caller
ForgotResult_Leak(answer) ==
    IF IsSome(answer.error) THEN Json(ErrorBody(Get(answer.error)), 400)
    ELSE Json(EmptyBody, 200)

\* lines 46-55: the response computed from resetPasswordForEmail's {error}
ForgotResult(answer) == Json(EmptyBody, 200)

\* lines 46-49: what is logged for resetPasswordForEmail's {error}
ForgotLog(answer) ==
    IF IsSome(answer.error)
    THEN <<[msg |-> "Failed to send reset password email:", error |-> Get(answer.error)]>>
    ELSE <<>>

\* lines 15-25: the rate-limit block (no configuration flag is read here)
ForgotRateLimit ==
    /\ op = "forgot" /\ pc = "start"
    /\ IF authRateLimit
       THEN \E a \in LimitAnswers :
              /\ calls' = Append(calls, Call("limit", request.ip, a))
              /\ IF "threw" \in DOMAIN a
                 THEN /\ Finish(ForgotUnexpected)
                      /\ console' = Append(console, [msg |-> "Error in forgot password:",
                                                     error |-> "limit"])
                 ELSE IF ~a.success THEN Finish(TooManyRequests) /\ UNCHANGED console
                 ELSE pc' = "body" /\ UNCHANGED <<response, console>>
       ELSE pc' = "body" /\ UNCHANGED <<calls, response, console>>
    /\ UNCHANGED <<op, AUTH_CONFIG, authRateLimit, apiRateLimit, store, router, theme, toast, locals, request, supabase>>

\* lines 27-37: request.json() and validateEmail
ForgotValidate ==
    /\ op = "forgot" /\ pc = "body"
    /\ IF ~IsSome(request.body)
       THEN /\ Finish(ForgotUnexpected)
            /\ console' = Append(console, [msg |-> "Error in forgot password:",
                                           error |-> "json"])
       ELSE LET validation == validateEmail(Get(request.body).email)
            IN  /\ IF ~validation.isValid
                   THEN Finish(Json(ErrorBody(IF IsSome(validation.error)
                                              THEN Get(validation.error)
                                              ELSE "Invalid email"), 400))
                   ELSE pc' = "reset" /\ UNCHANGED response
                /\ UNCHANGED console
    /\ UNCHANGED <<op, AUTH_CONFIG, authRateLimit, apiRateLimit, store, router, theme, toast, locals, request, supabase, calls>>

\* lines 39-62: supabase.auth.resetPasswordForEmail and the response
ForgotCall ==
    /\ op = "forgot" /\ pc = "reset"
    /\ \E a \in ResetAnswers :
         /\ calls' = Append(calls, Call("resetPasswordForEmail",
                                        Get(request.body).email, a))
         /\ IF "threw" \in DOMAIN a
            THEN /\ Finish(ForgotUnexpected)
                 /\ console' = Append(console, [msg |-> "Error in forgot password:",
                                                error |-> "resetPasswordForEmail"])
            ELSE /\ Finish(ForgotResult(a))
                 /\ console' = console \o ForgotLog(a)
    /\ UNCHANGED <<op, AUTH_CONFIG, authRateLimit, apiRateLimit, store, router, theme, toast, locals, request, supabase>>

(***************************************************************************)
(* The route handlers' specification: one request to one of the routes.    *)
(***************************************************************************)
InitRoutes ==
    /\ op \in {"signup", "forgot"}
    /\ pc = "start"
    /\ AUTH_CONFIG \in [twoFactorAuth : {NoTwoFactorConfig}, api_rate_limit : ApiRateLimitConfigs]
    /\ authRateLimit \in BOOLEAN
    /\ apiRateLimit = FALSE
    /\ store = [user |-> None]
    /\ router = "/"
    /\ theme = "light"
    /\ toast = <<>>
    /\ request \in [ip : {"127.0.0.1"}, body : Bodies]
    /\ supabase \in [registered : BOOLEAN, all : {<<>>}]
    /\ locals = NoLocals
    /\ calls = <<>>
    /\ response = NoResponse
    /\ console = <<>>

NextRoutes ==
    \/ SignUpRateLimit \/ SignUpValidate \/ SignUpCall
    \/ ForgotRateLimit \/ ForgotValidate \/ ForgotCall

SpecRoutes == InitRoutes /\ [][NextRoutes]_vars

(***************************************************************************)
(* Properties of the route handlers (checked under SpecRoutes).            *)
(***************************************************************************)
LastCall == calls[Len(calls)]
Threw(call) == "threw" \in DOMAIN call.answer
\* the limiter let the request through: none configured / enabled, or success
PassedLimit(enabled) ==
    IF authRateLimit /\ enabled
    THEN calls # <<>> /\ calls[1].fn = "limit" /\ calls[1].answer = [success |-> TRUE]
    ELSE TRUE
\* a finished sign-up request that was valid, not rate limited, and answered by the provider
SignUpAnswered ==
    /\ op = "signup" /\ pc = "done"
    /\ PassedLimit(AUTH_CONFIG.api_rate_limit.enabled)
    /\ IsSome(request.body)
    /\ ~IsSome(validateFormData(Get(request.body)).error)
    /\ ~Threw(LastCall)
\* a finished forgot-password request that was valid, not rate limited, and answered
ForgotAnswered ==
    /\ op = "forgot" /\ pc = "done"
    /\ PassedLimit(TRUE)
    /\ IsSome(request.body)
    /\ validateEmail(Get(request.body).email).isValid
    /\ ~Threw(LastCall)

\* C1 (as claimed): every valid, non-rate-limited sign-up request gets the one
\* uniform success response, 200 with an empty body, whatever the provider
\* answered (account exists or not, error or not); no provider message is in it.
C1_SignUpUniform ==
    SignUpAnswered => response = Json(EmptyBody, 200)

\* C1 (amended): a valid, non-rate-limited sign-up request answered by the
\* provider gets 400 with the fixed "already registered" message when the
\* returned user has no identities, otherwise 400 with the provider's own
\* error message when it reported an error, and 200 with an empty body only
\* when neither is the case.
C1_SignUpByAnswer ==
    SignUpAnswered =>
        /\ LastCall.fn = "signUp"
        /\ LET a == LastCall.answer
           IN  /\ (IsSome(a.user) /\ Get(a.user).identities = 0)
                     => response = SignUpAlreadyRegistered
               /\ (~(IsSome(a.user) /\ Get(a.user).identities = 0) /\ IsSome(a.error))
                     => /\ response.status = 400
                        /\ response.body = {<<"error", Get(a.error)>>}
               /\ (~(IsSome(a.user) /\ Get(a.user).identities = 0) /\ ~IsSome(a.error))
                     => response = Json(EmptyBody, 200)

\* C1 witness: a valid sign-up for an email that has an account ended in 400
C1_Witness ==
    /\ SignUpAnswered
    /\ LastCall.answer.user = Some([identities |-> 0])
    /\ response.status = 400

\* C2: a forgot-password request that passed rate limiting and email
\* validation gets 200 with an empty body whether resetPasswordForEmail
\* succeeded or returned an error, and no response of this route ever carries
\* a provider message.
C2_ForgotUniform ==
    /\ ForgotAnswered =>
          /\ LastCall.fn = "resetPasswordForEmail"
          /\ response = Json(EmptyBody, 200)
    /\ (op = "forgot" /\ pc = "done") =>
          \A m \in ProviderMessages : <<"error", m>> \notin response.body

\* C2 witness: resetPasswordForEmail returned an error and the reply is 200 {}
C2_Witness ==
    /\ ForgotAnswered
    /\ IsSome(LastCall.answer.error)
    /\ response.status = 200

(***************************************************************************)
(* src/utils/auth.ts: the two-factor helpers.                              *)
(***************************************************************************)
MaxFactors == 3

Return(v) == [kind |-> "return", value |-> v]
Throw(msg) == [kind |-> "throw", message |-> msg]

\* Array.prototype.find is First of the elements that satisfy the test
First(hits) == IF hits = <<>> THEN None ELSE Some(hits[1])

\* AUTH_CONFIG.twoFactorAuth: the methods list is empty, or names the
\* authenticator, or the authenticator and sms, each enabled or not
MethodLists ==
    {<<>>}
    \cup {<<[type |-> "authenticator", enabled |-> a]>> : a \in BOOLEAN}
    \cup {<<[type |-> "authenticator", enabled |-> a], [type |-> "sms", enabled |-> b]>> :
            a \in BOOLEAN, b \in BOOLEAN}
TwoFactorConfigs == [enabled : BOOLEAN, methods : MethodLists]

\* the factors a user can have enrolled at the provider: up to MaxFactors,
\* the factor at position i having the id i
FactorTypes == {"totp", "phone", "webauthn"}
FactorStatuses == {"verified", "unverified"}
FactorLists ==
    UNION {{[i \in 1..n |-> [id |-> i, factor_type |-> t[i], status |-> st[i]]] :
              t \in [1..n -> FactorTypes], st \in [1..n -> FactorStatuses]} :
           n \in 0..MaxFactors}

OfType(all, t) == SelectSeq(all, LAMBDA f : f.factor_type = t)

\* supabase.auth.mfa.listFactors(): {data: {all, totp, phone}, error}.  totp and
\* phone list the factors of their type; either may be missing from data.
ListFactorsAnswers(all) ==
    {[data |-> Some([all |-> all,
                     totp |-> IF hasTotp THEN Some(OfType(all, "totp")) ELSE None,
                     phone |-> IF hasPhone THEN Some(OfType(all, "phone")) ELSE None]),
      error |-> None] : hasTotp \in BOOLEAN, hasPhone \in BOOLEAN}
    \cup {[data |-> None, error |-> Some(m)] : m \in {"Network request failed"}}

\* enabledMethods without the filter
enabledMethods_Unfiltered(config) == config.methods

\* lines 94-96: AUTH_CONFIG.twoFactorAuth.methods.filter((m) => m.enabled)
enabledMethods(config) == SelectSeq(config.methods, LAMBDA m : m.enabled)

\* VerifiedEntry taking the first factor of the list, verified or not
VerifiedEntry_AnyStatus(list, type) ==
    IF ~IsSome(list) THEN <<>>
    ELSE IF Len(Get(list)) > 0
         THEN <<[type |-> type, factorId |-> Get(list)[1].id]>>
         ELSE <<>>

\* lines 116-127 and 130-141: the entry one list of data contributes
VerifiedEntry(list, type) ==
    IF ~IsSome(list) THEN <<>>
    ELSE LET verified == SelectSeq(Get(list), LAMBDA factor : factor.status = "verified")
         IN  IF Len(verified) > 0
             THEN <<[type |-> type, factorId |-> verified[1].id]>>
             ELSE <<>>

\* lines 110-141: availableMethods after both blocks
availableMethods(data) ==
    VerifiedEntry(data.totp, "authenticator") \o VerifiedEntry(data.phone, "sms")

\* getMostTrustedTwoFactorMethod with the preference order reversed
getMostTrustedTwoFactorMethod_SmsFirst(methods) ==
    IF Len(methods) = 0 THEN None
    ELSE LET authenticator == First(SelectSeq(methods, LAMBDA m : m.type = "authenticator"))
             sms == First(SelectSeq(methods, LAMBDA m : m.type = "sms"))
         IN  IF IsSome(sms) THEN sms
             ELSE IF IsSome(authenticator) THEN authenticator
             ELSE None

\* lines 199-216
getMostTrustedTwoFactorMethod(methods) ==
    IF Len(methods) = 0 THEN None
    ELSE LET authenticator == First(SelectSeq(methods, LAMBDA m : m.type = "authenticator"))
             sms == First(SelectSeq(methods, LAMBDA m : m.type = "sms"))
         IN  IF IsSome(authenticator) THEN authenticator
             ELSE IF IsSome(sms) THEN sms
             ELSE None

\* lines 143-158: the result computed from the collected methods
Requirement(methods) ==
    IF Len(methods) > 0
    THEN LET defaultMethod == getMostTrustedTwoFactorMethod(methods)
         IN  IF ~IsSome(defaultMethod)
             THEN Throw("No default 2FA method found")
             ELSE Return([requiresTwoFactor |-> TRUE,
                          factorId |-> Get(defaultMethod).factorId,
                          availableMethods |-> methods])
    ELSE Return([requiresTwoFactor |-> FALSE])

\* FactorsResult taking a failed listing for "no factors enrolled"
FactorsResult_ErrorAsNone(a) ==
    IF IsSome(a.error) THEN Return([requiresTwoFactor |-> FALSE])
    ELSE Requirement(availableMethods(Get(a.data)))

\* lines 105-158: what checkTwoFactorRequirements makes of listFactors' answer
FactorsResult(a) ==
    IF IsSome(a.error) THEN Throw("Failed to check 2FA status")
    ELSE Requirement(availableMethods(Get(a.data)))

\* lines 105-106: what is logged for listFactors' answer
FactorsLog(a) ==
    IF IsSome(a.error)
    THEN <<[msg |-> "Error getting MFA factors:", error |-> Get(a.error)]>>
    ELSE <<>>

\* lines 88-100 of checkTwoFactorRequirements: the configuration checks
CheckConfig ==
    /\ op = "checkTwoFactorRequirements" /\ pc = "start"
    /\ IF ~AUTH_CONFIG.twoFactorAuth.enabled
       THEN Finish(Return([requiresTwoFactor |-> FALSE]))
       ELSE IF Len(enabledMethods(AUTH_CONFIG.twoFactorAuth)) = 0
       THEN Finish(Return([requiresTwoFactor |-> FALSE]))
       ELSE pc' = "listFactors" /\ UNCHANGED response
    /\ UNCHANGED <<op, AUTH_CONFIG, authRateLimit, apiRateLimit, store, router, theme, toast, locals, request, supabase, calls, console>>

\* lines 102-158 of checkTwoFactorRequirements: listFactors and the result
CheckFactors ==
    /\ op = "checkTwoFactorRequirements" /\ pc = "listFactors"
    /\ \E a \in ListFactorsAnswers(supabase.all) :
         /\ calls' = Append(calls, Call("listFactors", <<>>, a))
         /\ console' = console \o FactorsLog(a)
         /\ Finish(FactorsResult(a))
    /\ UNCHANGED <<op, AUTH_CONFIG, authRateLimit, apiRateLimit, store, router, theme, toast, locals, request, supabase>>

\* supabase.auth.mfa.challenge({factorId}): {data: {id}, error}
ChallengeIds == {"c1", "c2"}
MfaMessages == {"Factor not found", "Invalid TOTP code entered"}
ChallengeAnswers ==
    {[data |-> Some([id |-> c]), error |-> None] : c \in ChallengeIds}
    \cup {[data |-> None, error |-> Some(m)] : m \in MfaMessages}

\* supabase.auth.mfa.verify({factorId, challengeId, code}): {data, error}
VerifyAnswers ==
    {[error |-> None]} \cup {[error |-> Some(m)] : m \in MfaMessages}

\* the codes a caller may pass (verifyTwoFactorCode does not validate them)
Codes == {"123456", "000000", "12a456"}

\* lines 172-177 of verifyTwoFactorCode: the challenge
VerifyChallenge ==
    /\ op = "verifyTwoFactorCode" /\ pc = "start"
    /\ \E a \in ChallengeAnswers :
         /\ calls' = Append(calls, Call("challenge", [factorId |-> request.factorId], a))
         /\ IF IsSome(a.error)
            THEN Finish(Throw(Get(a.error))) /\ UNCHANGED locals
            ELSE /\ pc' = "verify"
                 /\ locals' = [challengeData |-> Get(a.data)]
                 /\ UNCHANGED response
    /\ UNCHANGED <<op, AUTH_CONFIG, authRateLimit, apiRateLimit, store, router, theme, toast, request, supabase, console>>

\* VerifyCode asking the provider again when the code was rejected
VerifyCode_Retry ==
    /\ op = "verifyTwoFactorCode" /\ pc = "verify"
    /\ \E a \in VerifyAnswers :
         /\ calls' = Append(calls, Call("verify", [factorId |-> request.factorId,
                                                   challengeId |-> locals.challengeData.id,
                                                   code |-> request.code], a))
         /\ IF IsSome(a.error)
            THEN UNCHANGED <<pc, response>>
            ELSE Finish(Return(None))
    /\ UNCHANGED <<op, AUTH_CONFIG, authRateLimit, apiRateLimit, store, router, theme, toast, locals, request, supabase, console>>

\* lines 179-189 of verifyTwoFactorCode: the verification
VerifyCode ==
    /\ op = "verifyTwoFactorCode" /\ pc = "verify"
    /\ \E a \in VerifyAnswers :
         /\ calls' = Append(calls, Call("verify", [factorId |-> request.factorId,
                                                   challengeId |-> locals.challengeData.id,
                                                   code |-> request.code], a))
         /\ IF IsSome(a.error)
            THEN Finish(Throw(Get(a.error)))
            ELSE Finish(Return(None))
    /\ UNCHANGED <<op, AUTH_CONFIG, authRateLimit, apiRateLimit, store, router, theme, toast, locals, request, supabase, console>>

\* lines 230-232: the test getFactorIdForMethod's find applies to a factor
FactorMatches(f, method) ==
    /\ f.status = "verified"
    /\ IF f.factor_type = "totp" THEN method = "authenticator" ELSE method = "sms"

\* lines 229-235: the id found in listFactors' data (null when there is none)
FactorIdIn(factors, method) ==
    IF ~IsSome(factors) THEN None
    ELSE LET factor == First(SelectSeq(Get(factors).all,
                                       LAMBDA f : FactorMatches(f, method)))
         IN  IF IsSome(factor) THEN Some(Get(factor).id) ELSE None

\* lines 224-236: getFactorIdForMethod
GetFactorId ==
    /\ op = "getFactorIdForMethod" /\ pc = "start"
    /\ \E a \in ListFactorsAnswers(supabase.all) :
         /\ calls' = Append(calls, Call("listFactors", <<>>, a))
         /\ Finish(Return(FactorIdIn(a.data, request.method)))
    /\ UNCHANGED <<op, AUTH_CONFIG, authRateLimit, apiRateLimit, store, router, theme, toast, locals, request, supabase, console>>

(***************************************************************************)
(* The two-factor helpers' specification: one call of one helper.          *)
(***************************************************************************)
TTwoFactorMethod == {"authenticator", "sms"}

InitTwoFactor ==
    /\ op \in {"checkTwoFactorRequirements", "verifyTwoFactorCode", "getFactorIdForMethod"}
    /\ pc = "start"
    /\ AUTH_CONFIG \in [twoFactorAuth : IF op = "checkTwoFactorRequirements"
                                        THEN TwoFactorConfigs ELSE {NoTwoFactorConfig},
                        api_rate_limit : {[enabled |-> FALSE]}]
    /\ authRateLimit = FALSE
    /\ apiRateLimit = FALSE
    /\ store = [user |-> None]
    /\ router = "/"
    /\ theme = "light"
    /\ toast = <<>>
    /\ request \in CASE op = "checkTwoFactorRequirements" -> {<<>>}
                     [] op = "verifyTwoFactorCode" ->
                            [factorId : 1..MaxFactors, code : Codes]
                     [] op = "getFactorIdForMethod" -> [method : TTwoFactorMethod]
    /\ supabase \in [registered : {TRUE},
                     all : IF op = "verifyTwoFactorCode" THEN {<<>>} ELSE FactorLists]
    /\ locals = NoLocals
    /\ calls = <<>>
    /\ response = NoResponse
    /\ console = <<>>

NextTwoFactor ==
    \/ CheckConfig \/ CheckFactors
    \/ VerifyChallenge \/ VerifyCode
    \/ GetFactorId

SpecTwoFactor == InitTwoFactor /\ [][NextTwoFactor]_vars

(***************************************************************************)
(* Properties of the two-factor helpers (checked under SpecTwoFactor).     *)
(***************************************************************************)
NotRequired == Return([requiresTwoFactor |-> FALSE])
Checking == op = "checkTwoFactorRequirements"
CheckDone == Checking /\ pc = "done"
SomeMethodEnabled ==
    \E i \in DOMAIN AUTH_CONFIG.twoFactorAuth.methods :
        AUTH_CONFIG.twoFactorAuth.methods[i].enabled
\* the listing was asked for and answered with data
Listed == calls # <<>> /\ LastCall.fn = "listFactors" /\ ~IsSome(LastCall.answer.error)
ListedData == Get(LastCall.answer.data)
\* the positions of the verified factors of a list that may be missing
VerifiedAt(list) ==
    IF IsSome(list) THEN {i \in DOMAIN Get(list) : Get(list)[i].status = "verified"} ELSE {}
Min(S) == CHOOSE i \in S : \A j \in S : i <= j
\* the entries the claim expects: one per kind that has a verified factor
ExpectedEntries(data) ==
    {[type |-> "authenticator", factorId |-> Get(data.totp)[Min(VerifiedAt(data.totp))].id] :
        x \in IF VerifiedAt(data.totp) = {} THEN {} ELSE {1}}
    \cup
    {[type |-> "sms", factorId |-> Get(data.phone)[Min(VerifiedAt(data.phone))].id] :
        x \in IF VerifiedAt(data.phone) = {} THEN {} ELSE {1}}
Required == CheckDone /\ response.kind = "return" /\ response.value.requiresTwoFactor

\* C3: with 2FA enabled and a method enabled in configuration, the listing is
\* asked for, and whenever it reports an error the operation fails with an
\* error: it returns neither "not required" nor "required".
C3_ListErrorIsFatal ==
    (CheckDone /\ AUTH_CONFIG.twoFactorAuth.enabled /\ SomeMethodEnabled) =>
        /\ Len(calls) = 1 /\ LastCall.fn = "listFactors"
        /\ IsSome(LastCall.answer.error) =>
              /\ response.kind = "throw"
              /\ response.message = "Failed to check 2FA status"

\* C3 witness: the listing failed and the operation threw
C3_Witness ==
    /\ CheckDone /\ calls # <<>> /\ IsSome(LastCall.answer.error)
    /\ response.kind = "throw"

\* C4: with 2FA disabled in configuration, or no method enabled in it, the
\* result is "not required" whatever factors are enrolled, and the provider's
\* factor listing is never asked for.
C4_DisabledNotRequired ==
    (Checking /\ (~AUTH_CONFIG.twoFactorAuth.enabled \/ ~SomeMethodEnabled)) =>
        /\ calls = <<>>
        /\ pc = "done" => response = NotRequired

\* C4 witness: a verified factor is enrolled, a method is listed but none is
\* enabled, and the call returned
C4_Witness ==
    /\ CheckDone
    /\ AUTH_CONFIG.twoFactorAuth.enabled
    /\ AUTH_CONFIG.twoFactorAuth.methods # <<>> /\ ~SomeMethodEnabled
    /\ \E i \in DOMAIN supabase.all :
          supabase.all[i].status = "verified" /\ supabase.all[i].factor_type = "totp"
    /\ response = NotRequired

\* C5: when the listing succeeds, the returned available-method list holds
\* exactly one authenticator entry with the id of the first verified factor of
\* the TOTP list (if there is one) and one sms entry with the id of the first
\* verified factor of the phone list (if there is one); with no verified
\* factor the result is "not required".
C5_AvailableMethods ==
    (CheckDone /\ Listed) =>
        IF ExpectedEntries(ListedData) = {}
        THEN response = NotRequired
        ELSE /\ response.kind = "return" /\ response.value.requiresTwoFactor
             /\ Range(response.value.availableMethods) = ExpectedEntries(ListedData)
             /\ Len(response.value.availableMethods) = Cardinality(ExpectedEntries(ListedData))

\* C5 witness: the TOTP list starts with an unverified factor followed by a
\* verified one, and the result is "required"
C5_Witness ==
    /\ CheckDone /\ Listed /\ response.kind = "return" /\ response.value.requiresTwoFactor
    /\ IsSome(ListedData.totp) /\ Len(Get(ListedData.totp)) >= 2
    /\ Get(ListedData.totp)[1].status = "unverified"
    /\ Get(ListedData.totp)[2].status = "verified"

\* C6: a "required" result's default factorId is the factorId of the
\* authenticator entry of the returned list if it has one and of its sms entry
\* otherwise, it is the id of an enrolled factor, and the error "No default 2FA
\* method found" is never raised.
C6_DefaultMethod ==
    /\ Required =>
          LET methods == response.value.availableMethods
              auth == {m \in Range(methods) : m.type = "authenticator"}
              sms == {m \in Range(methods) : m.type = "sms"}
          IN  /\ \E m \in Range(methods) : m.factorId = response.value.factorId
              /\ \E i \in DOMAIN supabase.all : supabase.all[i].id = response.value.factorId
              /\ IF auth # {} THEN \E m \in auth : response.value.factorId = m.factorId
                 ELSE \E m \in sms : response.value.factorId = m.factorId
    /\ (CheckDone /\ response.kind = "throw") => response.message # "No default 2FA method found"

\* C6 witness: a verified authenticator factor and a verified sms factor, the
\* sms factor enrolled first, and the default is the authenticator
C6_Witness ==
    /\ Required
    /\ Len(response.value.availableMethods) = 2
    /\ \E i, j \in DOMAIN supabase.all :
          /\ i < j
          /\ supabase.all[i].factor_type = "phone" /\ supabase.all[i].status = "verified"
          /\ supabase.all[j].factor_type = "totp" /\ supabase.all[j].id = response.value.factorId

\* the kinds AUTH_CONFIG.twoFactorAuth.methods names as enabled
EnabledKinds ==
    {AUTH_CONFIG.twoFactorAuth.methods[i].type :
        i \in {j \in DOMAIN AUTH_CONFIG.twoFactorAuth.methods :
                  AUTH_CONFIG.twoFactorAuth.methods[j].enabled}}

\* C14: a "required" result of checkTwoFactorRequirements names, in its
\* available-method list and as its default, only methods whose kind is
\* enabled in the configuration's methods list.
C14_OnlyEnabledKinds ==
    Required =>
        /\ \A m \in Range(response.value.availableMethods) : m.type \in EnabledKinds
        /\ \E m \in Range(response.value.availableMethods) :
              m.factorId = response.value.factorId /\ m.type \in EnabledKinds


Verifying == op = "verifyTwoFactorCode"

\* C7: verifyTwoFactorCode asks the provider for one challenge, then at most
\* once for a verification, which is asked only after the challenge succeeded
\* and carries that challenge's id; a rejected challenge fails the operation
\* with the provider's message and no verification is asked, a rejected
\* verification fails it with the provider's message, and otherwise it succeeds.
C7_ChallengeThenVerify ==
    Verifying =>
        /\ Len(calls) <= 2
        /\ Len(calls) >= 1 =>
              /\ calls[1].fn = "challenge"
              /\ calls[1].args = [factorId |-> request.factorId]
        /\ Len(calls) = 2 =>
              /\ ~IsSome(calls[1].answer.error)
              /\ calls[2].fn = "verify"
              /\ calls[2].args = [factorId |-> request.factorId,
                                  challengeId |-> Get(calls[1].answer.data).id,
                                  code |-> request.code]
        /\ pc = "done" =>
              /\ Len(calls) >= 1
              /\ IF IsSome(calls[1].answer.error)
                 THEN Len(calls) = 1 /\ response = Throw(Get(calls[1].answer.error))
                 ELSE /\ Len(calls) = 2
                      /\ IF IsSome(calls[2].answer.error)
                         THEN response = Throw(Get(calls[2].answer.error))
                         ELSE response.kind = "return"

\* C7, the order of the calls: a step of the operation adds one call to the
\* log and never changes a call already made
C7_CallsOnlyGrow ==
    [][Verifying => \/ calls' = calls
                    \/ /\ Len(calls') = Len(calls) + 1
                       /\ SubSeq(calls', 1, Len(calls)) = calls]_vars

\* C7 witness: the challenge succeeded and the verification was rejected
C7_Witness ==
    /\ Verifying /\ pc = "done" /\ Len(calls) = 2
    /\ response.kind = "throw"

\* C8 (as claimed): getFactorIdForMethod returns the id of the first listed
\* factor that is verified and of the requested kind (authenticator: totp,
\* sms: phone), and none when there is no such factor.
KindOf(method) == IF method = "authenticator" THEN "totp" ELSE "phone"
C8_FirstVerifiedOfKind ==
    (op = "getFactorIdForMethod" /\ pc = "done" /\ ~IsSome(LastCall.answer.error)) =>
        LET all == ListedData.all
            hits == {i \in DOMAIN all : /\ all[i].status = "verified"
                                        /\ all[i].factor_type = KindOf(request.method)}
        IN  response = Return(IF hits = {} THEN None ELSE Some(all[Min(hits)].id))

(***************************************************************************)
(* src/utils/auth.ts: calculateDeviceConfidence.  A string is the sequence *)
(* of its characters, so that split, slice and join do what they do.       *)
(***************************************************************************)
MaxSessions == 2

RECURSIVE Split(_, _)
\* String.prototype.split(sep) for a one-character separator
Split(s, sep) ==
    LET at == {i \in DOMAIN s : s[i] = sep}
    IN  IF at = {} THEN <<s>>
        ELSE LET i == CHOOSE k \in at : \A j \in at : k <= j
             IN  <<SubSeq(s, 1, i - 1)>> \o Split(SubSeq(s, i + 1, Len(s)), sep)

RECURSIVE Join(_, _)
\* Array.prototype.join(sep)
Join(parts, sep) ==
    IF parts = <<>> THEN <<>>
    ELSE IF Len(parts) = 1 THEN parts[1]
    ELSE parts[1] \o <<sep>> \o Join(Tail(parts), sep)

\* Array.prototype.slice(0, n)
Slice0(parts, n) == SubSeq(parts, 1, IF Len(parts) < n THEN Len(parts) ELSE n)

\* the truthiness of a string that may be null: neither null nor ""
Truthy(str) == IsSome(str) /\ Get(str) # <<>>

\* lines 46-47: os.split(" ")[0]
OsBase(os) == Split(os, " ")[1]
\* IpPrefix keeping two components instead of three
IpPrefix_TwoParts(ip) == Join(Slice0(Split(ip, "."), 2), ".")

\* lines 55-56: ip_address.split(".").slice(0, 3).join(".")
IpPrefix(ip) == Join(Slice0(Split(ip, "."), 3), ".")

\* lines 30-63: the score of one stored session against the current device
SessionScore(session, current) ==
    LET stored == session.device
    IN  (IF stored.device_name = current.device_name THEN 30 ELSE 0)
      + (IF stored.browser = current.browser THEN 20 ELSE 0)
      + (IF Truthy(stored.os) /\ Truthy(current.os)
            /\ OsBase(Get(stored.os)) = OsBase(Get(current.os)) THEN 20 ELSE 0)
      + (IF Truthy(stored.ip_address) /\ Truthy(current.ip_address)
            /\ IpPrefix(Get(stored.ip_address)) = IpPrefix(Get(current.ip_address))
         THEN 15 ELSE 0)

RECURSIVE SumOf(_)
SumOf(scores) == IF scores = <<>> THEN 0 ELSE scores[1] + SumOf(Tail(scores))
\* MathMax adding the scores up instead of taking the highest
MathMax_Sum(scores) == SumOf(scores)

\* Math.max(...scores) of a non-empty array
MathMax(scores) ==
    CHOOSE m \in Range(scores) : \A x \in Range(scores) : x <= m

\* lines 20-67: storedSessions is null or an array
calculateDeviceConfidence(storedSessions, current) ==
    IF ~IsSome(storedSessions) \/ Len(Get(storedSessions)) = 0 THEN 100
    ELSE MathMax([i \in DOMAIN Get(storedSessions) |->
                    SessionScore(Get(storedSessions)[i], current)])

\* the device a login reports, and the devices of the stored sessions
DeviceNames == {"iPhone", "Pixel"}
Browsers == {"Safari", "Chrome"}
StoredOs == {None, Some(<<>>), Some(<<"W", " ", "1">>)}
CurrentOs == {None, Some(<<>>), Some(<<"W", " ", "1">>), Some(<<"W", " ", "2">>),
              Some(<<"M", " ", "1">>)}
StoredIps == {None, Some(<<>>), Some(<<"1", ".", "2", ".", "3", ".", "4">>)}
CurrentIps == {None, Some(<<>>), Some(<<"1", ".", "2", ".", "3", ".", "4">>),
               Some(<<"1", ".", "2", ".", "3", ".", "9">>),
               Some(<<"1", ".", "2", ".", "4", ".", "4">>)}
StoredDevices ==
    [device_name : DeviceNames, browser : Browsers, os : StoredOs, ip_address : StoredIps]
CurrentDevices ==
    [device_name : {"iPhone"}, browser : {"Safari"}, os : CurrentOs, ip_address : CurrentIps]

\* the caller's query appended one device session to the stored ones
StoreSession ==
    /\ op = "calculateDeviceConfidence" /\ pc = "start"
    /\ IsSome(request.storedSessions)
    /\ Len(Get(request.storedSessions)) < MaxSessions
    /\ \E d \in StoredDevices :
         request' = [request EXCEPT !.storedSessions =
                        Some(Append(Get(@), [device |-> d]))]
    /\ UNCHANGED <<op, pc, AUTH_CONFIG, authRateLimit, apiRateLimit, store, router, theme, toast, locals, supabase, calls,
                   response, console>>

\* lines 20-67: the call
Calculate ==
    /\ op = "calculateDeviceConfidence" /\ pc = "start"
    /\ Finish(Return(calculateDeviceConfidence(request.storedSessions, request.current)))
    /\ UNCHANGED <<op, AUTH_CONFIG, authRateLimit, apiRateLimit, store, router, theme, toast, locals, request, supabase, calls, console>>

InitScore ==
    /\ op = "calculateDeviceConfidence"
    /\ pc = "start"
    /\ AUTH_CONFIG = [twoFactorAuth |-> NoTwoFactorConfig, api_rate_limit |-> [enabled |-> FALSE]]
    /\ authRateLimit = FALSE
    /\ apiRateLimit = FALSE
    /\ store = [user |-> None]
    /\ router = "/"
    /\ theme = "light"
    /\ toast = <<>>
    /\ request \in [storedSessions : {None, Some(<<>>)}, current : CurrentDevices]
    /\ supabase = [registered |-> TRUE, all |-> <<>>]
    /\ locals = NoLocals
    /\ calls = <<>>
    /\ response = NoResponse
    /\ console = <<>>

NextScore == StoreSession \/ Calculate

SpecScore == InitScore /\ [][NextScore]_vars

(***************************************************************************)
(* Properties of calculateDeviceConfidence (checked under SpecScore).      *)
(***************************************************************************)
ScoreDone == op = "calculateDeviceConfidence" /\ pc = "done"
History == IF IsSome(request.storedSessions) THEN Get(request.storedSessions) ELSE <<>>
\* the positions of character c in s, and the k-th of them
PositionsOf(s, c) == {i \in DOMAIN s : s[i] = c}
Nth(S, k) == CHOOSE x \in S : Cardinality({y \in S : y < x}) = k - 1
\* "the substring before the first space" (the whole string when it has none)
BeforeFirstSpace(s) ==
    IF PositionsOf(s, " ") = {} THEN s
    ELSE SubSeq(s, 1, Nth(PositionsOf(s, " "), 1) - 1)
\* the dot-separated components of s: how many, and the k-th
NumComponents(s) == Cardinality(PositionsOf(s, ".")) + 1
Component(s, k) ==
    LET dots == PositionsOf(s, ".")
        lo == IF k = 1 THEN 0 ELSE Nth(dots, k - 1)
        hi == IF k = NumComponents(s) THEN Len(s) + 1 ELSE Nth(dots, k)
    IN  SubSeq(s, lo + 1, hi - 1)
FirstThree(s) ==
    [k \in 1..(IF NumComponents(s) < 3 THEN NumComponents(s) ELSE 3) |-> Component(s, k)]
SetMax(S) == CHOOSE m \in S : \A x \in S : x <= m
Present(str) == IsSome(str)
NonEmpty(str) == IsSome(str) /\ Len(Get(str)) > 0

\* the per-session sum as C9 states it: OS strings present, IP strings present
\* and non-empty
ClaimedScore(stored, current) ==
      (IF stored.device_name = current.device_name THEN 30 ELSE 0)
    + (IF stored.browser = current.browser THEN 20 ELSE 0)
    + (IF Present(stored.os) /\ Present(current.os)
          /\ BeforeFirstSpace(Get(stored.os)) = BeforeFirstSpace(Get(current.os))
       THEN 20 ELSE 0)
    + (IF NonEmpty(stored.ip_address) /\ NonEmpty(current.ip_address)
          /\ FirstThree(Get(stored.ip_address)) = FirstThree(Get(current.ip_address))
       THEN 15 ELSE 0)

\* the per-session sum with the OS weight also requiring non-empty OS strings
AmendedScore(stored, current) ==
      (IF stored.device_name = current.device_name THEN 30 ELSE 0)
    + (IF stored.browser = current.browser THEN 20 ELSE 0)
    + (IF NonEmpty(stored.os) /\ NonEmpty(current.os)
          /\ BeforeFirstSpace(Get(stored.os)) = BeforeFirstSpace(Get(current.os))
       THEN 20 ELSE 0)
    + (IF NonEmpty(stored.ip_address) /\ NonEmpty(current.ip_address)
          /\ FirstThree(Get(stored.ip_address)) = FirstThree(Get(current.ip_address))
       THEN 15 ELSE 0)

\* C9 (as claimed): for a non-empty history the score is the maximum over the
\* stored sessions of: 30 for an equal device_name, 20 for an equal browser, 20
\* when both OS strings are present and equal before their first space, 15 when
\* both IP strings are present and non-empty and equal in their first three
\* dot-separated components.
C9_MaxOfSums ==
    (ScoreDone /\ History # <<>>) =>
        response.value =
            SetMax({ClaimedScore(History[i].device, request.current) : i \in DOMAIN History})

\* C9 (amended): as claimed, except that the OS weight, like the IP weight,
\* needs both strings present and non-empty: an empty OS string on either side
\* contributes 0.
C9_MaxOfSumsNonEmptyOs ==
    (ScoreDone /\ History # <<>>) =>
        response.value =
            SetMax({AmendedScore(History[i].device, request.current) : i \in DOMAIN History})

\* C9 witness: two stored sessions, the first matching nothing, the second
\* matching the OS base name and the IP range only, and the score is 35
C9_Witness ==
    /\ ScoreDone /\ Len(History) = 2
    /\ AmendedScore(History[1].device, request.current) = 0
    /\ AmendedScore(History[2].device, request.current) = 35
    /\ response.value = 35

\* C10: the score is an integer in [0,100]; it is 100 exactly when there is no
\* history (null or empty), and between 0 and 85 when there is one.
C10_ScoreRange ==
    ScoreDone =>
        /\ response.kind = "return"
        /\ response.value \in 0..100
        /\ History = <<>> => response.value = 100
        /\ History # <<>> => response.value \in 0..85

\* C10 witness: a history of two sessions of which one matches in all four
\* weights, and the score is 85
C10_Witness ==
    /\ ScoreDone /\ Len(History) = 2
    /\ response.value = 85

(***************************************************************************)
(* src/utils/auth.ts: getConfidenceLevel, called on a number or on the     *)
(* score calculateDeviceConfidence returned.                               *)
(***************************************************************************)
\* getConfidenceLevel with the first threshold exclusive
getConfidenceLevel_Exclusive(score) ==
    IF score > 70 THEN "high"
    ELSE IF score >= 40 THEN "medium"
    ELSE "low"

\* lines 74-78
getConfidenceLevel(score) ==
    IF score >= 70 THEN "high"
    ELSE IF score >= 40 THEN "medium"
    ELSE "low"

\* lines 74-78: the call on a number the caller passes
GetLevel ==
    /\ op = "getConfidenceLevel" /\ pc = "start"
    /\ Finish(Return(getConfidenceLevel(request.score)))
    /\ UNCHANGED <<op, AUTH_CONFIG, authRateLimit, apiRateLimit, store, router, theme, toast, locals, request, supabase, calls, console>>

\* lines 74-78: the call on the score calculateDeviceConfidence returned
LevelOfScore ==
    /\ op = "calculateDeviceConfidence" /\ pc = "done"
    /\ pc' = "levelled"
    /\ locals' = [level |-> getConfidenceLevel(response.value)]
    /\ UNCHANGED <<op, AUTH_CONFIG, authRateLimit, apiRateLimit, store, router, theme, toast, request, supabase, calls, response, console>>

InitLevel ==
    \/ InitScore
    \/ /\ op = "getConfidenceLevel"
       /\ pc = "start"
       /\ AUTH_CONFIG = [twoFactorAuth |-> NoTwoFactorConfig,
                         api_rate_limit |-> [enabled |-> FALSE]]
       /\ authRateLimit = FALSE
       /\ apiRateLimit = FALSE
       /\ store = [user |-> None]
       /\ router = "/"
       /\ theme = "light"
       /\ toast = <<>>
       /\ request \in [score : 0..100]
       /\ supabase = [registered |-> TRUE, all |-> <<>>]
       /\ locals = NoLocals
       /\ calls = <<>>
       /\ response = NoResponse
       /\ console = <<>>

NextLevel == StoreSession \/ Calculate \/ LevelOfScore \/ GetLevel

SpecLevel == InitLevel /\ [][NextLevel]_vars

(***************************************************************************)
(* Properties of getConfidenceLevel (checked under SpecLevel).             *)
(***************************************************************************)
\* a finished classification: the number classified and the level it got
Levelled ==
    \/ op = "getConfidenceLevel" /\ pc = "done"
    \/ op = "calculateDeviceConfidence" /\ pc = "levelled"
LevelInput == IF op = "getConfidenceLevel" THEN request.score ELSE response.value
LevelOutput == IF op = "getConfidenceLevel" THEN response.value ELSE locals.level
\* one stored session, scored and classified
OneSessionLevelled ==
    op = "calculateDeviceConfidence" /\ pc = "levelled" /\ Len(History) = 1
LevelThresholds ==
    Levelled =>
        /\ LevelOutput = "high" <=> LevelInput >= 70
        /\ LevelOutput = "medium" <=> (40 <= LevelInput /\ LevelInput < 70)
        /\ LevelOutput = "low" <=> LevelInput < 40
\* the stored session matches the current device in no weight
MatchesNothing(stored, current) ==
    /\ stored.device_name # current.device_name
    /\ stored.browser # current.browser
    /\ ~(NonEmpty(stored.os) /\ NonEmpty(current.os)
         /\ BeforeFirstSpace(Get(stored.os)) = BeforeFirstSpace(Get(current.os)))
    /\ ~(NonEmpty(stored.ip_address) /\ NonEmpty(current.ip_address)
         /\ FirstThree(Get(stored.ip_address)) = FirstThree(Get(current.ip_address)))
\* the stored session matches in device_name and browser and has no OS/IP data
NameAndBrowserOnly(stored, current) ==
    /\ stored.device_name = current.device_name
    /\ stored.browser = current.browser
    /\ ~IsSome(stored.os) /\ ~IsSome(stored.ip_address)
PartialAndNoMatch ==
    OneSessionLevelled =>
        /\ NameAndBrowserOnly(History[1].device, request.current)
              => response.value = 50 /\ locals.level = "medium"
        /\ MatchesNothing(History[1].device, request.current)
              => response.value = 0 /\ locals.level = "low"

OldPassword == [text |-> "old-password", len |-> PasswordMinLen]
WrongPassword == [text |-> "wrong-password", len |-> PasswordMinLen]
NewPassword == [text |-> "new-password", len |-> PasswordMaxLen]
ChangeBodies ==
    {None} \cup
    {Some([currentPassword |-> c, newPassword |-> n, confirmPassword |-> k]) :
        c \in {None, Some([text |-> "", len |-> 0]), Some(OldPassword), Some(WrongPassword)},
        n \in {None, Some([text |-> "short", len |-> PasswordMinLen - 1]), Some(NewPassword),
               Some([text |-> "long", len |-> PasswordMaxLen + 1])},
        k \in {None, Some(NewPassword), Some(WrongPassword)}}

\* the signed-in user of the request's session, if any: user.app_metadata.providers
Providers == {None, Some({"email"}), Some({"google"}), Some({"email", "google"})}
Users == {[email |-> "user@example.com", app_metadata |-> [providers |-> p]] : p \in Providers}

\* passwordChangeSchema.safeParse(body): the issues, in order.  The refinement
\* runs only when every field has its type.
ChangeIssues(body) ==
    LET typed == IsSome(body.currentPassword) /\ IsSome(body.newPassword)
                 /\ IsSome(body.confirmPassword)
    IN  (IF ~IsSome(body.currentPassword) THEN <<"Required">>
         ELSE IF Get(body.currentPassword).len < 1 THEN <<"Current password is required">>
         ELSE <<>>)
        \o PasswordIssues(body.newPassword)
        \o (IF ~IsSome(body.confirmPassword) THEN <<"Required">> ELSE <<>>)
        \o (IF typed /\ Get(body.newPassword) # Get(body.confirmPassword)
            THEN <<"Passwords don't match">> ELSE <<>>)

\* supabase.auth.getUser(): {data: {user}, error}
GetUserAnswers(user) ==
    (IF IsSome(user)
        THEN {[user |-> user, error |-> None]}
        ELSE {[user |-> None, error |-> Some("Auth session missing!")],
              [user |-> None, error |-> None]})
    \cup {[threw |-> TRUE]}

\* supabase.auth.signInWithPassword({email, password}): {error}
SignInAnswers(stored, password) ==
    (IF stored = Some(password)
        THEN {[error |-> None], [error |-> Some("Request rate limit reached")]}
        ELSE {[error |-> Some("Invalid login credentials")]})
    \cup {[threw |-> TRUE]}

\* supabase.auth.updateUser({password}): {error}
UpdateUserAnswers ==
    {[error |-> None],
     [error |-> Some("New password should be different from the old password.")],
     [threw |-> TRUE]}

ChangeUnexpected == Json(ErrorBody("An unexpected error occurred"), 500)
ChangeCaught(what) == [msg |-> "Error in change password:", error |-> what]

\* hasPasswordAuth never set: the verification is skipped for every user
hasPasswordAuth_Never(user) == FALSE

\* line 125: user.app_metadata.providers?.includes("email")
hasPasswordAuth(user) ==
    IsSome(user.app_metadata.providers) /\ "email" \in Get(user.app_metadata.providers)

\* lines 84-94: the rate-limit block
ChangeRateLimit ==
    /\ op = "changePassword" /\ pc = "start"
    /\ IF apiRateLimit /\ AUTH_CONFIG.api_rate_limit.enabled
       THEN \E a \in LimitAnswers :
              /\ calls' = Append(calls, Call("limit", request.ip, a))
              /\ IF "threw" \in DOMAIN a
                 THEN Finish(ChangeUnexpected)
                      /\ console' = Append(console, ChangeCaught("limit"))
                 ELSE IF ~a.success THEN Finish(TooManyRequests) /\ UNCHANGED console
                 ELSE pc' = "getUser" /\ UNCHANGED <<response, console>>
       ELSE pc' = "getUser" /\ UNCHANGED <<calls, response, console>>
    /\ UNCHANGED <<op, AUTH_CONFIG, authRateLimit, apiRateLimit, store, router, theme, toast, locals, request, supabase>>

\* lines 96-108: createClient, getUser and the authentication check
ChangeGetUser ==
    /\ op = "changePassword" /\ pc = "getUser"
    /\ \E a \in GetUserAnswers(supabase.user) :
         /\ calls' = Append(calls, Call("getUser", <<>>, a))
         /\ IF "threw" \in DOMAIN a
            THEN /\ Finish(ChangeUnexpected)
                 /\ console' = Append(console, ChangeCaught("getUser"))
                 /\ UNCHANGED locals
            ELSE /\ IF IsSome(a.error) \/ ~IsSome(a.user)
                    THEN Finish(Json(ErrorBody("Unauthorized"), 401)) /\ UNCHANGED locals
                    ELSE /\ pc' = "body"
                         /\ locals' = [user |-> Get(a.user)]
                         /\ UNCHANGED response
                 /\ UNCHANGED console
    /\ UNCHANGED <<op, AUTH_CONFIG, authRateLimit, apiRateLimit, store, router, theme, toast, request, supabase>>

\* lines 110-128: request.json(), passwordChangeSchema and hasPasswordAuth
ChangeValidate ==
    /\ op = "changePassword" /\ pc = "body"
    /\ IF ~IsSome(request.body)
       THEN /\ Finish(ChangeUnexpected)
            /\ console' = Append(console, ChangeCaught("json"))
       ELSE LET issues == ChangeIssues(Get(request.body))
            IN  /\ IF issues # <<>>
                   THEN Finish(Json(ErrorBody(issues[1]), 400))
                   ELSE /\ pc' = IF hasPasswordAuth(locals.user) THEN "signIn" ELSE "updateUser"
                        /\ UNCHANGED response
                /\ UNCHANGED console
    /\ UNCHANGED <<op, AUTH_CONFIG, authRateLimit, apiRateLimit, store, router, theme, toast, locals, request, supabase, calls>>

\* lines 128-140: signInWithPassword with the current password
ChangeSignIn ==
    /\ op = "changePassword" /\ pc = "signIn"
    /\ LET password == Get(Get(request.body).currentPassword)
       IN  \E a \in SignInAnswers(supabase.password, password) :
             /\ calls' = Append(calls, Call("signInWithPassword",
                                 [email |-> locals.user.email, password |-> password], a))
             /\ IF "threw" \in DOMAIN a
                THEN /\ Finish(ChangeUnexpected)
                     /\ console' = Append(console, ChangeCaught("signInWithPassword"))
                ELSE /\ IF IsSome(a.error)
                        THEN Finish(Json(ErrorBody("Current password is incorrect"), 400))
                        ELSE pc' = "updateUser" /\ UNCHANGED response
                     /\ UNCHANGED console
    /\ UNCHANGED <<op, AUTH_CONFIG, authRateLimit, apiRateLimit, store, router, theme, toast, locals, request, supabase>>

\* lines 142-165: updateUser with the new password, and the response
ChangeUpdate ==
    /\ op = "changePassword" /\ pc = "updateUser"
    /\ LET password == Get(Get(request.body).newPassword)
       IN  \E a \in UpdateUserAnswers :
             /\ calls' = Append(calls, Call("updateUser", [password |-> password], a))
             /\ IF "threw" \in DOMAIN a
                THEN /\ Finish(ChangeUnexpected)
                     /\ console' = Append(console, ChangeCaught("updateUser"))
                     /\ UNCHANGED supabase
                ELSE IF IsSome(a.error)
                THEN /\ Finish(Json(ErrorBody("Failed to update password"), 500))
                     /\ console' = Append(console, [msg |-> "Failed to update password:",
                                                    error |-> Get(a.error)])
                     /\ UNCHANGED supabase
                ELSE /\ Finish(Json(EmptyBody, 200))
                     /\ supabase' = [supabase EXCEPT !.password = Some(password)]
                     /\ UNCHANGED console
    /\ UNCHANGED <<op, AUTH_CONFIG, authRateLimit, apiRateLimit, store, router, theme, toast, locals, request>>

\* one request to the change-password route.  An account created with
\* email/password has a password; one created with OAuth may have added one.
InitChangePassword ==
    /\ op = "changePassword"
    /\ pc = "start"
    /\ AUTH_CONFIG \in [twoFactorAuth : {NoTwoFactorConfig}, api_rate_limit : ApiRateLimitConfigs]
    /\ authRateLimit = FALSE
    /\ apiRateLimit \in BOOLEAN
    /\ store = [user |-> None]
    /\ router = "/"
    /\ theme = "light"
    /\ toast = <<>>
    /\ request \in [ip : {"127.0.0.1"}, body : ChangeBodies]
    /\ supabase \in {[user |-> u, password |-> p] :
                        u \in {None} \cup {Some(x) : x \in Users},
                        p \in {None, Some(OldPassword)}}
    /\ IsSome(supabase.user) /\ hasPasswordAuth(Get(supabase.user))
          => IsSome(supabase.password)
    /\ locals = NoLocals
    /\ calls = <<>>
    /\ response = NoResponse
    /\ console = <<>>

NextChangePassword ==
    ChangeRateLimit \/ ChangeGetUser \/ ChangeValidate \/ ChangeSignIn \/ ChangeUpdate

SpecChangePassword == InitChangePassword /\ [][NextChangePassword]_vars

(***************************************************************************)
(* Properties of the change-password route (checked under                  *)
(* SpecChangePassword).                                                    *)
(***************************************************************************)
Changing == op = "changePassword"
Answered(call) == ~Threw(call)
\* the limiter let the request through: none configured / enabled, or success
ChangePassedLimit ==
    IF apiRateLimit /\ AUTH_CONFIG.api_rate_limit.enabled
    THEN calls # <<>> /\ calls[1].fn = "limit" /\ calls[1].answer = [success |-> TRUE]
    ELSE TRUE
\* the session has a user and getUser reported it
Authenticated ==
    /\ IsSome(supabase.user)
    /\ \E j \in DOMAIN calls :
          /\ calls[j].fn = "getUser" /\ Answered(calls[j])
          /\ calls[j].answer.user = supabase.user /\ ~IsSome(calls[j].answer.error)
\* the body satisfies passwordChangeSchema
ValidChange ==
    /\ IsSome(request.body)
    /\ LET b == Get(request.body)
       IN  /\ IsSome(b.currentPassword) /\ Get(b.currentPassword).len >= 1
           /\ IsSome(b.newPassword)
           /\ Get(b.newPassword).len >= 8 /\ Get(b.newPassword).len <= 72
           /\ b.confirmPassword = b.newPassword
\* the user signed up with email/password
EmailUser ==
    /\ IsSome(supabase.user)
    /\ Get(supabase.user).app_metadata.providers \in {Some({"email"}), Some({"email", "google"})}
SignInCalls == {k \in DOMAIN calls : calls[k].fn = "signInWithPassword"}
UpdateCalls == {k \in DOMAIN calls : calls[k].fn = "updateUser"}
VerificationFailed ==
    \E k \in SignInCalls : Answered(calls[k]) /\ IsSome(calls[k].answer.error)

\* C12: updateUser(password) is called only for an authenticated user whose
\* request passed rate limiting and schema validation and, for a user with
\* email/password auth, only right after signInWithPassword with the supplied
\* current password succeeded; a failed verification ends in 400 with the
\* password unchanged; for a user without password auth the verification is
\* skipped and updateUser is called directly.
C12_UpdateOnlyAfterVerification ==
    Changing =>
        /\ \A k \in UpdateCalls :
              /\ ChangePassedLimit /\ Authenticated /\ ValidChange
              /\ calls[k].args = [password |-> Get(Get(request.body).newPassword)]
              /\ IF EmailUser
                 THEN /\ k - 1 \in SignInCalls
                      /\ calls[k - 1].args.password = Get(Get(request.body).currentPassword)
                      /\ Answered(calls[k - 1]) /\ ~IsSome(calls[k - 1].answer.error)
                 ELSE SignInCalls = {}
        /\ (pc = "done" /\ VerificationFailed) =>
              /\ response = Json(ErrorBody("Current password is incorrect"), 400)
              /\ UpdateCalls = {}
              /\ supabase.password = Some(OldPassword)
        /\ (pc = "done" /\ ChangePassedLimit /\ Authenticated /\ ValidChange /\ ~EmailUser) =>
              /\ SignInCalls = {}
              /\ UpdateCalls = {Len(calls)}
        /\ supabase.password # Some(OldPassword) /\ supabase.password # None =>
              \E k \in UpdateCalls : Answered(calls[k]) /\ ~IsSome(calls[k].answer.error)

\* C12 witness: a user with email/password auth supplied a wrong current
\* password; the answer is 400 and the password is the old one
C12_Witness ==
    /\ Changing /\ pc = "done" /\ EmailUser /\ VerificationFailed
    /\ Get(request.body).currentPassword = Some(WrongPassword)
    /\ response.status = 400
    /\ supabase.password = Some(OldPassword)

(***************************************************************************)
(* components/user-dropdown.tsx: the dropdown's three items.  handleSignOut *)
(* awaits one fetch; the other two items are synchronous and stay          *)
(* clickable while the fetch is pending.                                   *)
(***************************************************************************)
MaxSignOuts == 2
StoreUsers == {[name |-> "Ada"], [name |-> "Bob"]}
Paths == {"/", "/account", "/dashboard"}
Themes == {"light", "dark"}
\* fetch resolves with a Response (ok is status in 200..299) or rejects
FetchAnswers ==
    {[ok |-> TRUE, status |-> 200], [ok |-> FALSE, status |-> 401],
     [ok |-> FALSE, status |-> 500], [threw |-> "TypeError: Failed to fetch"]}
Toast(title) == [kind |-> "error", title |-> title, description |-> "Please try again later"]
\* @/store/user-store logout(): the store forgets its user
logout(s) == [s EXCEPT !.user = None]

\* lines 53-61: the toast on a non-ok response, then logout() and
\* router.push("/") whatever the response was
AfterFetch(a) ==
    /\ toast' = IF a.ok THEN toast ELSE Append(toast, Toast("Failed to logout"))
    /\ store' = logout(store)
    /\ router' = "/"

\* the "Account" item
ClickAccount ==
    /\ op = "UserDropdown"
    /\ router' = "/account"
    /\ UNCHANGED <<op, pc, AUTH_CONFIG, authRateLimit, apiRateLimit, store, theme, toast,
                   request, supabase, locals, calls, response, console>>

\* the theme item
ToggleTheme ==
    /\ op = "UserDropdown"
    /\ theme' = IF theme = "light" THEN "dark" ELSE "light"
    /\ UNCHANGED <<op, pc, AUTH_CONFIG, authRateLimit, apiRateLimit, store, router, toast,
                   request, supabase, locals, calls, response, console>>

\* the "Log out" item: handleSignOut up to its await
SignOutFetch ==
    /\ op = "UserDropdown" /\ pc = "idle"
    /\ Len(calls) < MaxSignOuts
    /\ pc' = "fetch"
    /\ UNCHANGED <<op, AUTH_CONFIG, authRateLimit, apiRateLimit, store, router, theme, toast,
                   request, supabase, locals, calls, response, console>>

\* handleSignOut from the fetch's answer to its end
SignOutResolve ==
    /\ op = "UserDropdown" /\ pc = "fetch"
    /\ \E a \in FetchAnswers :
          /\ calls' = Append(calls, Call("fetch", [url |-> "/api/auth/logout", method |-> "POST"], a))
          /\ IF "threw" \in DOMAIN a
             THEN /\ toast' = Append(toast, Toast("Logout error"))
                  /\ UNCHANGED <<store, router>>
             ELSE AfterFetch(a)
    /\ pc' = "idle"
    /\ UNCHANGED <<op, AUTH_CONFIG, authRateLimit, apiRateLimit, theme,
                   request, supabase, locals, response, console>>

InitDropdown ==
    /\ op = "UserDropdown"
    /\ pc = "idle"
    /\ AUTH_CONFIG = [twoFactorAuth |-> NoTwoFactorConfig, api_rate_limit |-> [enabled |-> FALSE]]
    /\ authRateLimit = FALSE
    /\ apiRateLimit = FALSE
    /\ store \in [user : {None} \cup {Some(u) : u \in StoreUsers}]
    /\ router \in Paths
    /\ theme \in Themes
    /\ toast = <<>>
    /\ request = None
    /\ supabase = None
    /\ locals = NoLocals
    /\ calls = <<>>
    /\ response = NoResponse
    /\ console = <<>>

NextDropdown == ClickAccount \/ ToggleTheme \/ SignOutFetch \/ SignOutResolve
SpecDropdown == InitDropdown /\ [][NextDropdown]_vars

(***************************************************************************)
(* Properties of the dropdown (checked under SpecDropdown).                *)
(***************************************************************************)
\* the step in which handleSignOut's fetch was answered
FetchAnswered == op = "UserDropdown" /\ calls' # calls
FetchOk == Answered(LastCall') /\ LastCall'.answer.ok

\* C13: handleSignOut clears the user store and redirects to "/" only when
\* the POST to /api/auth/logout answered ok; on a non-ok answer or a thrown
\* fetch the store and the route stay as they were.
C13_StoreAndRouteOnlyOnOk ==
    [][(FetchAnswered /\ ~FetchOk) => (store' = store /\ router' = router)]_vars

=============================================================================
